---- MODULE Spec2Model ----
(***************************************************************************)
(* A model of checksum.py: main() classifies the target, reads its bytes   *)
(* from a local file or from a URL, hashes them with hashlib.sha<N> and    *)
(* prints either the digest or the result of comparing it with --hashsum.  *)
(*                                                                         *)
(* Python values: str is a TLA+ string, except the target, which is a      *)
(* sequence of one-character strings so that its prefix can be taken;      *)
(* bytes is a sequence of byte values; Optional[T] is <<>> for None and    *)
(* <<v>> for the value v.                                                  *)
(***************************************************************************)
EXTENDS Integers, Sequences, FiniteSets

VARIABLES
    args,            \* argparse.Namespace: target, algorithm_version, cafile, hashsum
    existing,        \* the paths for which os.path.exists is true on this host
    content,         \* the bytes the target holds (file content or response body)
    pc,              \* position in main()
    cafile,          \* main's local cafile (line 99, reassigned on line 108)
    request,         \* main's local request (line 105), None until built
    ssl_context,     \* main's local ssl_context (line 110), None until built
    fp,              \* the handle of the with statement: "none", "open", "closed"
    chunk_size,      \* read_bytes' chunk_size argument
    pos,             \* read position of the readable
    b,               \* read_bytes' accumulator, then main's b
    target_hashsum,  \* main's local target_hashsum (line 117), None until computed
    stdout,          \* the lines printed so far
    exit_status,     \* the process exit status, None while running
    error,           \* the exception that ended the run, None if none
    exists_calls,    \* the paths os.path.exists was called with, in order
    urlopen_calls,   \* number of urllib.request.urlopen calls
    open_calls       \* number of open() calls

vars == <<args, existing, content, pc, cafile, request, ssl_context, fp,
          chunk_size, pos, b, target_hashsum, stdout, exit_status, error,
          exists_calls, urlopen_calls, open_calls>>

None == <<>>
Some(v) == <<v>>

\* ------------------------------------------------------------- bounds
MaxLen == 3      \* longest content, in bytes
MaxChunk == 3    \* largest chunk size given to read_bytes on its own

\* ---------------------------------------------------------- constants
KIBIBYTE == 1024
MEBIBYTE == 1024 * KIBIBYTE

DEFAULT_CAFILE_PATHS == <<"/etc/ssl/certs/cacert.pem", "/etc/ssl/cert.pem">>

DEFAULT_USER_AGENT ==
    "Mozilla/5.0 (Macintosh; Intel Mac OS X 10_15_7) AppleWebKit/537.36 "
    \o "(KHTML, like Gecko) Chrome/85.0.4183.121 Safari/537.36"

\* ------------------------------------------------------------- inputs
Bytes == {0, 255}

Contents == UNION {[1..n -> Bytes] : n \in 0..MaxLen}

Targets ==
    { <<"h","t","t","p","s",":","/","/","h">>,    \* https://h
      <<"h","t","t","p",":","/","/","h">>,        \* http://h
      <<"h","t","t","p","d">>,                    \* httpd     (a file name)
      <<"/","h","t","t","p">>,                    \* /http     (a path)
      <<"H","T","T","P","S",":","/","/","h">>,    \* HTTPS://h
      <<"f">> }                                   \* f

AlgorithmVersions == {-256, -1, 0, 1, 42, 224, 256, 384, 512}

Cafiles == {None, Some(""), Some("/my/ca.pem")}

\* ---------------------------------------------------- str(int), f-string
DigitChar(d) == <<"0","1","2","3","4","5","6","7","8","9">>[d + 1]

RECURSIVE NatStr(_)
NatStr(n) == IF n < 10 THEN DigitChar(n)
             ELSE NatStr(n \div 10) \o DigitChar(n % 10)

\* str(int) that loses the sign.
IntStr_unsigned(n) == IF n < 0 THEN NatStr(-n) ELSE NatStr(n)

IntStr(n) == IF n < 0 THEN "-" \o NatStr(-n) ELSE NatStr(n)

\* --------------------------------------------------------------- hashlib
\* The public names of the hashlib module.
HashlibAttributes ==
    { "md5", "sha1", "sha224", "sha256", "sha384", "sha512",
      "sha3_224", "sha3_256", "sha3_384", "sha3_512",
      "shake_128", "shake_256", "blake2b", "blake2s",
      "new", "pbkdf2_hmac", "scrypt", "file_digest",
      "algorithms_available", "algorithms_guaranteed" }

HexLower == <<"0","1","2","3","4","5","6","7","8","9","a","b","c","d","e","f">>
HexUpper == <<"0","1","2","3","4","5","6","7","8","9","A","B","C","D","E","F">>

RECURSIVE HashState(_, _)
HashState(h, bytes) ==
    IF bytes = <<>> THEN h
    ELSE HashState((h * 33 + Head(bytes) + 1) % 256, Tail(bytes))

Hex(table, h) == table[(h \div 16) + 1] \o table[(h % 16) + 1]

\* A stand-in for the hash function: a one-byte digest of the bytes, seeded
\* by the algorithm's name.
Digest(name, bytes) == HashState((Len(name) * 7 + 3) % 256, bytes)

\* <hash object>.hexdigest(): the digest in lowercase hexadecimal.
hexdigest(name, bytes) == Hex(HexLower, Digest(name, bytes))

AlgorithmName(algorithm_version) == "sha" \o IntStr(algorithm_version)

\* get_alogirthm_function: getattr(hashlib, f"sha{algorithm_version}");
\* None stands for the AttributeError getattr raises.
get_alogirthm_function(algorithm_version) ==
    IF AlgorithmName(algorithm_version) \in HashlibAttributes
    THEN Some(AlgorithmName(algorithm_version))
    ELSE None

\* get_hashsum: None stands for the propagated AttributeError.
get_hashsum(algorithm_version, bytes) ==
    IF get_alogirthm_function(algorithm_version) = None THEN None
    ELSE Some(hexdigest(get_alogirthm_function(algorithm_version)[1], bytes))

\* The digests the contents can have, as the user might type them.
ExpectedHashsums ==
    {None, Some("")}
    \cup {Some(hexdigest("sha1", c)) : c \in {<<>>, <<255>>}}
    \cup {Some(Hex(HexUpper, Digest("sha1", c))) : c \in {<<>>, <<255>>}}

\* ------------------------------------------------------------ str methods
\* `prefix in s` where s.startswith(prefix) was meant.
startswith_anywhere(s, prefix) ==
    \E i \in 1..Len(s) :
        /\ i + Len(prefix) - 1 <= Len(s)
        /\ SubSeq(s, i, i + Len(prefix) - 1) = prefix

\* str.startswith: s[:len(prefix)] == prefix
startswith(s, prefix) ==
    /\ Len(s) >= Len(prefix)
    /\ SubSeq(s, 1, Len(prefix)) = prefix

Http == <<"h","t","t","p">>

\* Truthiness of an Optional[str]: None and "" are false.
Truthy(opt) == opt # None /\ opt[1] # ""

\* ------------------------------------------------------------ request
get_headers(user_agent) == [UserAgent |-> user_agent]

build_request(url, headers) == [url |-> url, headers |-> headers]

create_ssl_context(cf) == [cafile |-> cf]

\* ------------------------------------------------------ get_default_cafile
\* A loop that keeps the last existing path instead of returning the first.
RECURSIVE CafileLoop_last(_, _, _)
CafileLoop_last(paths, i, probed) ==
    IF i > Len(paths) THEN [probed |-> probed, found |-> None]
    ELSE LET rest == CafileLoop_last(paths, i + 1, Append(probed, paths[i])) IN
         IF paths[i] \in existing /\ rest.found = None
         THEN [probed |-> rest.probed, found |-> Some(paths[i])]
         ELSE rest

\* The loop of get_default_cafile over paths[i..]: the paths probed with
\* os.path.exists and the path returned; None stands for FileNotFoundError.
RECURSIVE CafileLoop(_, _, _)
CafileLoop(paths, i, probed) ==
    IF i > Len(paths) THEN [probed |-> probed, found |-> None]
    ELSE IF paths[i] \in existing
         THEN [probed |-> Append(probed, paths[i]), found |-> Some(paths[i])]
         ELSE CafileLoop(paths, i + 1, Append(probed, paths[i]))

\* A lookup that falls back to the first default path instead of raising.
get_default_cafile_fallback ==
    LET r == CafileLoop(DEFAULT_CAFILE_PATHS, 1, <<>>) IN
    IF r.found = None
    THEN [probed |-> r.probed, found |-> Some(DEFAULT_CAFILE_PATHS[1])]
    ELSE r

get_default_cafile == CafileLoop(DEFAULT_CAFILE_PATHS, 1, <<>>)

\* ------------------------------------------------------------ exceptions
\* An exception nothing catches leaves main and sys.exit is never reached:
\* the interpreter prints the traceback to stderr and exits with status 1.
\* A top level that swallows the exception and exits normally.
UncaughtExitStatus_swallowed(exc) == 0

UncaughtExitStatus(exc) == 1

Raise(exc) ==
    /\ pc' = "failed"
    /\ error' = Some(exc)
    /\ exit_status' = Some(UncaughtExitStatus(exc))

\* __exit__ of the with statement around the handle: it closes the handle
\* whether the body returned or raised.
\* fp.close() after the body instead of a with statement.
WithExit_noFinally(handle, raised) == IF raised THEN handle ELSE "closed"

WithExit(handle, raised) == "closed"

\* ---------------------------------------------------------------- report
\* Lines 119-131: the line printed and the value main returns.
ReportLine(digest, expected) ==
    IF expected = None THEN "Target hassum is '" \o digest \o "'"
    ELSE IF digest = expected[1] THEN "True"
    ELSE "False"

\* `if not hashsum` where `if hashsum is None` was meant.
ReportCode_falsy(digest, expected) ==
    IF ~Truthy(expected) THEN 0
    ELSE IF digest = expected[1] THEN 0
    ELSE 1

ReportCode(digest, expected) ==
    IF expected = None THEN 0
    ELSE IF digest = expected[1] THEN 0
    ELSE 1

\* ------------------------------------------------------------------ Init
Init ==
    /\ args \in [target : Targets, algorithm_version : AlgorithmVersions,
                 user_agent : {DEFAULT_USER_AGENT},
                 cafile : Cafiles, hashsum : ExpectedHashsums]
    /\ existing \in SUBSET {DEFAULT_CAFILE_PATHS[i] : i \in 1..Len(DEFAULT_CAFILE_PATHS)}
    /\ content \in Contents
    /\ pc = "main"
    /\ cafile = args.cafile
    /\ request = None
    /\ ssl_context = None
    /\ fp = "none"
    /\ chunk_size = 0
    /\ pos = 0
    /\ b = <<>>
    /\ target_hashsum = None
    /\ stdout = <<>>
    /\ exit_status = None
    /\ error = None
    /\ exists_calls = <<>>
    /\ urlopen_calls = 0
    /\ open_calls = 0

\* --------------------------------------------------------------- actions
\* Lines 103-105: the target is a URL; build the request.
BuildRequest ==
    /\ pc = "main"
    /\ startswith(args.target, Http)
    /\ request' = Some(build_request(args.target, get_headers(args.user_agent)))
    /\ pc' = "cafile"
    /\ UNCHANGED <<args, existing, content, cafile, ssl_context, fp, chunk_size,
                   pos, b, target_hashsum, stdout, exit_status, error,
                   exists_calls, urlopen_calls, open_calls>>

\* Lines 103, 114-115 and 65: the target is a path; open(path, 'rb'), which
\* raises when the file cannot be opened.
OpenFile ==
    /\ pc = "main"
    /\ ~startswith(args.target, Http)
    /\ open_calls' = open_calls + 1
    /\ \/ /\ fp' = "open"
          /\ chunk_size' = MEBIBYTE
          /\ pc' = "read"
          /\ UNCHANGED <<exit_status, error>>
       \/ /\ Raise("OSError")
          /\ UNCHANGED <<fp, chunk_size>>
    /\ UNCHANGED <<args, existing, content, cafile, request, ssl_context,
                   pos, b, target_hashsum, stdout, exists_calls, urlopen_calls>>

\* Lines 107-108: a cafile that is None or "" is replaced by the default one.
ResolveCafile ==
    /\ pc = "cafile"
    /\ IF ~Truthy(cafile)
       THEN /\ exists_calls' = exists_calls \o get_default_cafile.probed
            /\ IF get_default_cafile.found = None
               THEN /\ Raise("FileNotFoundError")
                    /\ UNCHANGED cafile
               ELSE /\ cafile' = get_default_cafile.found
                    /\ pc' = "ssl"
                    /\ UNCHANGED <<exit_status, error>>
       ELSE /\ pc' = "ssl"
            /\ UNCHANGED <<cafile, exists_calls, exit_status, error>>
    /\ UNCHANGED <<args, existing, content, request, ssl_context, fp, chunk_size,
                   pos, b, target_hashsum, stdout, urlopen_calls, open_calls>>

\* Line 110: ssl.create_default_context(cafile=cafile), which raises when the
\* file cannot be loaded as a certificate bundle.
CreateSslContext ==
    /\ pc = "ssl"
    /\ \/ /\ ssl_context' = Some(create_ssl_context(cafile))
          /\ pc' = "urlopen"
          /\ UNCHANGED <<exit_status, error>>
       \/ /\ Raise("SSLError")
          /\ UNCHANGED ssl_context
    /\ UNCHANGED <<args, existing, content, cafile, request, fp, chunk_size,
                   pos, b, target_hashsum, stdout, exists_calls, urlopen_calls,
                   open_calls>>

\* Lines 112 and 72: urlopen(request, context=ssl_context), which raises when
\* the request cannot be completed.
UrlOpen ==
    /\ pc = "urlopen"
    /\ urlopen_calls' = urlopen_calls + 1
    /\ \/ /\ fp' = "open"
          /\ chunk_size' = 4 * KIBIBYTE
          /\ pc' = "read"
          /\ UNCHANGED <<exit_status, error>>
       \/ /\ Raise("URLError")
          /\ UNCHANGED <<fp, chunk_size>>
    /\ UNCHANGED <<args, existing, content, cafile, request, ssl_context,
                   pos, b, target_hashsum, stdout, exists_calls, open_calls>>

\* readable.read(chunk_size): up to chunk_size of the bytes left, and no
\* bytes only at the end of the content.
ReadSizes == IF pos = Len(content) THEN {0}
             ELSE {n \in 1..(Len(content) - pos) : n <= chunk_size}

\* Line 56: `not new_bytes`
IsEmpty(new_bytes) == new_bytes = <<>>

\* `b = new_bytes` where `b += new_bytes` was meant.
Accumulate_overwrite(acc, new_bytes) == new_bytes

\* Line 59: b += new_bytes
Accumulate(acc, new_bytes) == acc \o new_bytes

\* Lines 53-59, one iteration that does not leave the loop.
ReadChunk ==
    /\ pc = "read"
    /\ \E n \in ReadSizes :
          LET new_bytes == SubSeq(content, pos + 1, pos + n) IN
          /\ ~IsEmpty(new_bytes)
          /\ b' = Accumulate(b, new_bytes)
          /\ pos' = pos + n
    /\ UNCHANGED <<args, existing, content, pc, cafile, request, ssl_context, fp,
                   chunk_size, target_hashsum, stdout, exit_status, error,
                   exists_calls, urlopen_calls, open_calls>>

\* Lines 54-57, 61 and the end of the with block (66-68, 73-75): the read that
\* breaks the loop; read_bytes returns b and the handle is closed.
ReadBreak ==
    /\ pc = "read"
    /\ \E n \in ReadSizes :
          LET new_bytes == SubSeq(content, pos + 1, pos + n) IN
          /\ IsEmpty(new_bytes)
          /\ pos' = pos + n
    /\ fp' = WithExit(fp, FALSE)
    /\ pc' = "hash"
    /\ UNCHANGED <<args, existing, content, cafile, request, ssl_context, chunk_size,
                   b, target_hashsum, stdout, exit_status, error,
                   exists_calls, urlopen_calls, open_calls>>

\* Line 54 raising (the disk or the connection fails): the exception leaves
\* read_bytes through the with block, which closes the handle, and main.
ReadRaises ==
    /\ pc = "read"
    /\ fp' = WithExit(fp, TRUE)
    /\ Raise("OSError")
    /\ UNCHANGED <<args, existing, content, cafile, request, ssl_context, chunk_size,
                   pos, b, target_hashsum, stdout, exists_calls, urlopen_calls,
                   open_calls>>

\* Line 117.
GetHashsum ==
    /\ pc = "hash"
    /\ IF get_hashsum(args.algorithm_version, b) = None
       THEN /\ Raise("AttributeError")
            /\ UNCHANGED target_hashsum
       ELSE /\ target_hashsum' = get_hashsum(args.algorithm_version, b)
            /\ pc' = "report"
            /\ UNCHANGED <<exit_status, error>>
    /\ UNCHANGED <<args, existing, content, cafile, request, ssl_context, fp,
                   chunk_size, pos, b, stdout, exists_calls, urlopen_calls,
                   open_calls>>

\* Lines 119-131 and 135: print the result, return, sys.exit(main()).
Report ==
    /\ pc = "report"
    /\ stdout' = Append(stdout, ReportLine(target_hashsum[1], args.hashsum))
    /\ exit_status' = Some(ReportCode(target_hashsum[1], args.hashsum))
    /\ pc' = "exit"
    /\ UNCHANGED <<args, existing, content, cafile, request, ssl_context, fp,
                   chunk_size, pos, b, target_hashsum, error, exists_calls,
                   urlopen_calls, open_calls>>

Next ==
    \/ BuildRequest
    \/ OpenFile
    \/ ResolveCafile
    \/ CreateSslContext
    \/ UrlOpen
    \/ ReadChunk
    \/ ReadBreak
    \/ ReadRaises
    \/ GetHashsum
    \/ Report

Spec == Init /\ [][Next]_vars

\* ------------------------------------------- read_bytes on its own
\* read_bytes(readable, chunk_size) called on an open readable holding
\* `content`, for every content and every chunk size up to MaxChunk.
InitRead ==
    /\ args = [target |-> <<"f">>, algorithm_version |-> 1,
               user_agent |-> DEFAULT_USER_AGENT, cafile |-> None,
               hashsum |-> None]
    /\ existing = {}
    /\ content \in Contents
    /\ pc = "read"
    /\ cafile = None
    /\ request = None
    /\ ssl_context = None
    /\ fp = "open"
    /\ chunk_size \in 1..MaxChunk
    /\ pos = 0
    /\ b = <<>>
    /\ target_hashsum = None
    /\ stdout = <<>>
    /\ exit_status = None
    /\ error = None
    /\ exists_calls = <<>>
    /\ urlopen_calls = 0
    /\ open_calls = 1

NextRead ==
    \/ ReadChunk
    \/ ReadBreak

\* The loop is straight-line sequential code: an iteration that can run, runs.
ReadSpec == InitRead /\ [][NextRead]_vars /\ WF_vars(NextRead)

\* ================================================================ claims
IsHttpPrefixed ==
    /\ Len(args.target) >= 4
    /\ args.target[1] = "h" /\ args.target[2] = "t"
    /\ args.target[3] = "t" /\ args.target[4] = "p"

IsHttps == IsHttpPrefixed /\ Len(args.target) >= 5 /\ args.target[5] = "s"

CafileSupplied == args.cafile # None /\ args.cafile # Some("")

SupportedVersion == args.algorithm_version \in {1, 224, 256, 384, 512}

\* C1: in every completed run the exit code is 1 exactly when an expected
\* digest was supplied (any string, the empty string included) and it is not
\* character-for-character equal to the computed digest; otherwise it is 0.
C1_ExitCode ==
    pc = "exit" =>
        /\ target_hashsum # None
        /\ exit_status =
             Some(IF args.hashsum # None /\ args.hashsum # target_hashsum
                  THEN 1 ELSE 0)

\* A completed run whose expected digest differs from the computed one only
\* in letter case, and which exits with 1.
C1_Witness ==
    /\ pc = "exit"
    /\ target_hashsum = Some("1f")
    /\ args.hashsum = Some("1F")
    /\ exit_status = Some(1)

\* C2: every completed run has written exactly one line to stdout: the text
\* Target hashsum is '<hex>' when no expected digest was given, True when the
\* expected digest matches and False when it differs.
C2_StdoutLine ==
    pc = "exit" =>
        stdout = << IF args.hashsum = None
                    THEN "Target hashsum is '" \o target_hashsum[1] \o "'"
                    ELSE IF args.hashsum = target_hashsum THEN "True"
                    ELSE "False" >>

C4_DefaultsOnlyForHttps ==
    /\ exists_calls # <<>> => IsHttps /\ ~CafileSupplied
    /\ error = Some("FileNotFoundError") => IsHttps

\* C5: with an HTTPS target, no cafile and no default trust-anchor path on
\* the host, the run fails with the trust-anchor-not-found error and urlopen
\* has not been called at any point.
C5_NoRequestWithoutTrustAnchor ==
    (IsHttps /\ ~CafileSupplied /\ existing = {}) =>
        /\ urlopen_calls = 0
        /\ ssl_context = None
        /\ pc \in {"main", "cafile", "failed"}
        /\ pc = "failed" => error = Some("FileNotFoundError")

\* Such a run, ended by the lookup's error after probing every default path.
C5_Witness ==
    /\ IsHttps /\ args.cafile = None /\ existing = {}
    /\ pc = "failed"
    /\ error = Some("FileNotFoundError")
    /\ exists_calls = DEFAULT_CAFILE_PATHS

\* C6: a run in which the local read, the network fetch, the trust-anchor
\* lookup or the algorithm lookup fails writes nothing to stdout and exits
\* with a non-zero status; a line is printed only after the whole content was
\* read and hashed.
C6_AllOrNothing ==
    /\ error # None =>
          /\ stdout = <<>>
          /\ pc = "failed"
          /\ exit_status # None /\ exit_status # Some(0)
    /\ stdout # <<>> =>
          /\ error = None
          /\ b = content
          /\ target_hashsum # None

\* A read that fails after part of the content was accumulated.
C6_Witness ==
    /\ error = Some("OSError")
    /\ pos > 0 /\ pos < Len(content)
    /\ stdout = <<>>
    /\ exit_status = Some(1)

\* C7: get_hashsum returns a digest exactly for the algorithm identifiers 1,
\* 224, 256, 384 and 512; for every other integer it raises and no digest is
\* ever produced.
C7_SupportedAlgorithms ==
    /\ target_hashsum # None => SupportedVersion
    /\ error = Some("AttributeError") => ~SupportedVersion /\ target_hashsum = None
    /\ (pc \in {"report", "exit"} \/ error = Some("AttributeError")) =>
          /\ SupportedVersion <=> target_hashsum # None
          /\ ~SupportedVersion <=> error = Some("AttributeError")

\* Identifier 42 rejected after the content was read.
C7_Witness ==
    /\ args.algorithm_version = 42
    /\ error = Some("AttributeError")
    /\ b = content

\* C8: for every content (the empty one included) and every positive chunk
\* size the read loop terminates and returns the content: what was read so far
\* is always the prefix of the content up to the read position, and at the
\* return it is the whole content.
C8_RoundTrip ==
    /\ [](b = SubSeq(content, 1, pos))
    /\ [](pc = "hash" => b = content)
    /\ <>(pc = "hash")

\* A content of full length returned after being read in chunks of one byte
\* at most.
C8_Witness ==
    /\ pc = "hash"
    /\ Len(content) = MaxLen
    /\ chunk_size = 1
    /\ b = content

\* C9: the handle opened by read_file or read_request is open only while the
\* read loop runs: it is closed when the loop returns and when a read raises,
\* and no handle is open once main has returned or failed.
C9_HandleReleased ==
    /\ fp = "open" => pc = "read"
    /\ pc \in {"hash", "report", "exit", "failed"} => fp # "open"
    /\ (fp = "none" /\ pc \in {"hash", "report", "exit", "failed"}) =>
          (pc = "failed" /\ pos = 0 /\ b = <<>>)

\* A read that raised part-way through, with the handle closed.
C9_Witness ==
    /\ pc = "failed"
    /\ error = Some("OSError")
    /\ pos > 0 /\ pos < Len(content)
    /\ fp = "closed"

\* C10: get_default_cafile returns the first default path, in list order, that
\* exists; it raises only if none exists; a non-empty cafile given by the
\* caller is used as given and the default list is not consulted.
C10_FirstExistingCafile ==
    LET paths == DEFAULT_CAFILE_PATHS
        resolved == request # None /\ pc # "cafile"
                    /\ error # Some("FileNotFoundError")
    IN
    /\ CafileSupplied => cafile = args.cafile /\ exists_calls = <<>>
    /\ (resolved /\ ~CafileSupplied) =>
          \E i \in 1..Len(paths) :
             /\ cafile = Some(paths[i])
             /\ paths[i] \in existing
             /\ \A j \in 1..(i - 1) : paths[j] \notin existing
             /\ exists_calls = SubSeq(paths, 1, i)
    /\ error = Some("FileNotFoundError") =>
          /\ \A i \in 1..Len(paths) : paths[i] \notin existing
          /\ exists_calls = paths
    /\ ssl_context # None => ssl_context[1].cafile = cafile

\* Both default paths exist and the first one is used after a single probe.
C10_Witness ==
    /\ args.cafile = Some("")
    /\ existing = {DEFAULT_CAFILE_PATHS[1], DEFAULT_CAFILE_PATHS[2]}
    /\ ssl_context = Some([cafile |-> Some(DEFAULT_CAFILE_PATHS[1])])
    /\ exists_calls = <<DEFAULT_CAFILE_PATHS[1]>>

====
